---- MODULE Spec2Model ----
(***************************************************************************)
(* Model of the systray dispatch core (src/src/lib.rs): the Application    *)
(* aggregate (id counter, callback registry, consumer end of the event     *)
(* channel), its registration and configuration operations, the two        *)
(* message pumps with their remove / invoke / reinsert dispatch, and drop. *)
(*                                                                         *)
(* The control thread is a call stack of pump frames: a callback runs      *)
(* while its pump frame is at pc "call", and while it runs it may call any *)
(* operation of the Application it was handed (nested adds, nested pumps). *)
(* The platform thread pushes activation records and may drop the          *)
(* producer end at any time.                                               *)
(***************************************************************************)
EXTENDS Integers, Sequences, FiniteSets, TLC

\* ------------------------------------------------------------------ bounds
MaxAdds == 2        \* successful adds explored (ids 0 .. MaxAdds-1)
MaxPush == 2        \* activation records the platform thread pushes
MaxDepth == 2       \* pump calls nested through callbacks

\* ------------------------------------------------------------ value spaces
Callbacks == {"f", "g"}      \* closures a caller can register
NoCallback == "none"
NoId == -1
NoMsg == [menu_index |-> NoId, seq |-> 0]
UnknownId == MaxAdds         \* an id no add call ever returns within the bound
PushIds == 0 .. UnknownId    \* ids the platform thread may put in a record

\* The errors a platform call can answer with; the code passes every one of
\* them on unchanged, so one stands for all.
PlatformErrors == {"OsError"}
PlatformResults == {"Ok"} \cup PlatformErrors
ShutdownResults == {"Ok", "OsError"}

AddOps == {"add_menu_item", "add_menu_separator"}
PumpOps == {"wait_for_message", "wait_for_message_timeout"}
ConfigOps == {"set_icon_from_file", "set_icon_from_resource", "set_tooltip",
              "shutdown", "quit"}

VARIABLES
    app,            \* "none" | "live" | "failed" | "dropped": the Application value
    menu_idx,       \* Application.menu_idx
    callback,       \* Application.callback: id -> closure
    rx,             \* records buffered in the channel, oldest first
    tx,             \* TRUE while the producer end exists
    stack,          \* pump frames of the control thread, outermost first
    panicking,      \* TRUE while a callback's panic unwinds the control thread
    ret,            \* what the operation that completed in the last step returned
                    \* (retry: the idx of the rejected add this add comes after)
    plat,           \* the platform calls made in the last step, in order
    nPushed,        \* history: records pushed so far
    recvLog,        \* history: records received, in order, and whether one invoked a callback
    addLog,         \* history: successful adds, in order
    pendingFail,    \* history: idx of a rejected add not yet followed by a success
    lastAddIdx,     \* history: idx passed by the latest platform add call
    lostIds         \* history: ids whose callback panicked while it was running

vars == <<app, menu_idx, callback, rx, tx, stack, panicking, ret, plat,
          nPushed, recvLog, addLog, pendingFail, lastAddIdx, lostIds>>

NoFrame == [op |-> "none", pc |-> "none", msg |-> NoMsg, f |-> NoCallback,
            reg |-> NoCallback, chan |-> "none", start |-> "none",
            adds |-> 0]
NoRet == [op |-> "none", res |-> "none", id |-> NoId, retry |-> NoId,
          frame |-> NoFrame]
NoPlat == <<>>
PlatCall(call, idx, res) == <<[call |-> call, idx |-> idx, res |-> res]>>

\* ---------------------------------------------------------------- helpers
EmptyMap == [x \in {} |-> NoCallback]

\* HashMap::contains_key / insert / remove
ContainsKey(m, k) == k \in DOMAIN m

Insert(m, k, v) == [x \in DOMAIN m \cup {k} |-> IF x = k THEN v ELSE m[x]]

Remove(m, k) == [x \in DOMAIN m \ {k} |-> m[x]]

\* Faulty variant of NextMenuIdx: the counter is kept in too narrow a type
\* and wraps around.
NextMenuIdxWrap(idx) == (idx + 1) % MaxAdds

\* Faulty variant of NextMenuIdx: the counter is not advanced.
NextMenuIdxStuck(idx) == idx

\* self.menu_idx += 1 (a u32: the counter stays below MaxAdds here, far from
\* the 2^32 adds at which the addition overflows)
NextMenuIdx(idx) == idx + 1

\* Faulty variant of From_RecvError: the wrong error kind is chosen.
From_RecvError_AsTimeout == "Timeout"

\* impl From<RecvError> for SystrayError
From_RecvError == "Disconnected"

\* impl From<RecvTimeoutError> for SystrayError
From_RecvTimeoutError(e) ==
    CASE e = "Timeout" -> "Timeout"
      [] e = "Disconnected" -> "Disconnected"

\* std::sync::mpsc: Sender::send appends, Receiver::recv takes the oldest
\* buffered record; with nothing buffered it fails once the sender is gone
\* and otherwise blocks (recv) or runs into its deadline (recv_timeout).
Send(q, m) == Append(q, m)

\* Faulty variant of RecvFront: the newest buffered record is handed out.
RecvFrontNewest(q) == q[Len(q)]

RecvFront(q) == Head(q)

\* Faulty variant of RecvRest: the record handed out stays in the channel.
RecvRestKeeps(q) == q

RecvRest(q) == Tail(q)

\* Faulty variant of RecvReady: a receive on an empty channel keeps waiting
\* after the sender is gone.
RecvReadyNoHangup(q, t) == q # <<>>

RecvReady(q, t) == ~(q = <<>> /\ t)

\* Faulty variant of Recv: a receive fails as soon as the sender is gone, even
\* with records still buffered.
RecvFailFast(q, t) ==
    IF q # <<>> /\ t THEN [err |-> "none", msg |-> RecvFront(q)]
    ELSE [err |-> "Disconnected", msg |-> NoMsg]

Recv(q, t) ==
    IF q # <<>> THEN [err |-> "none", msg |-> RecvFront(q)]
    ELSE [err |-> "Disconnected", msg |-> NoMsg]

RecvTimeout(q, t) ==
    IF q # <<>> THEN [err |-> "none", msg |-> RecvFront(q)]
    ELSE IF ~t THEN [err |-> "Disconnected", msg |-> NoMsg]
    ELSE [err |-> "Timeout", msg |-> NoMsg]

\* Faulty variant of TimedRecvResult: every recv_timeout error is treated as
\* "no event".
TimedRecvResultSwallow(e) == "Ok"

\* Faulty variant of TimedRecvResult: the Timeout arm is missing, so every
\* recv_timeout error is converted and returned.
TimedRecvResultPropagate(e) == From_RecvTimeoutError(e)

\* wait_for_message_timeout's match on a failed recv_timeout: Timeout becomes
\* None and the call returns Ok(()); any other error is converted and returned.
TimedRecvResult(e) ==
    IF e = "Timeout" THEN "Ok" ELSE From_RecvTimeoutError(e)

Top == stack[Len(stack)]
Pop == SubSeq(stack, 1, Len(stack) - 1)

\* The control thread can start an operation: from the caller's main code, or
\* from inside the callback that the innermost pump frame is running.
CanCall ==
    /\ app = "live"
    /\ ~panicking
    /\ IF stack = <<>> THEN TRUE ELSE Top.pc = "call"

\* ------------------------------------------------------------------- Init
Init ==
    /\ app = "none"
    /\ menu_idx = 0
    /\ callback = EmptyMap
    /\ rx = <<>>
    /\ tx = FALSE
    /\ stack = <<>>
    /\ panicking = FALSE
    /\ ret = NoRet
    /\ plat = NoPlat
    /\ nPushed = 0
    /\ recvLog = <<>>
    /\ addLog = <<>>
    /\ pendingFail = NoId
    /\ lastAddIdx = NoId
    /\ lostIds = {}

\* ------------------------------------------------------------ Application
\* Application::new: channel(), Window::new(event_tx), then the aggregate.
New ==
    /\ app = "none"
    /\ \E r \in {"Ok", "OsError"} :
        /\ plat' = PlatCall("Window::new", NoId, r)
        /\ ret' = [NoRet EXCEPT !.op = "new", !.res = r]
        /\ IF r = "Ok"
           THEN /\ app' = "live"
                /\ tx' = TRUE
           ELSE /\ app' = "failed"
                /\ tx' = FALSE
    /\ menu_idx' = 0
    /\ callback' = EmptyMap
    /\ rx' = <<>>
    /\ UNCHANGED <<stack, panicking, nPushed, recvLog, addLog, pendingFail,
                   lastAddIdx, lostIds>>

\* Faulty variant of add_menu_item: the callback is stored and the counter
\* advanced before the platform's answer is looked at.
add_menu_item_eager ==
    /\ CanCall
    /\ menu_idx < MaxAdds
    /\ \E f \in Callbacks, r \in PlatformResults :
        LET idx == menu_idx IN
        /\ plat' = PlatCall("add_menu_entry", idx, r)
        /\ lastAddIdx' = idx
        /\ callback' = Insert(callback, idx, f)
        /\ menu_idx' = NextMenuIdx(menu_idx)
        /\ IF r # "Ok"
           THEN /\ ret' = [NoRet EXCEPT !.op = "add_menu_item", !.res = r]
                /\ pendingFail' = idx
                /\ UNCHANGED addLog
           ELSE /\ ret' = [NoRet EXCEPT !.op = "add_menu_item", !.res = "Ok",
                                        !.id = idx, !.retry = pendingFail]
                /\ pendingFail' = NoId
                /\ addLog' = Append(addLog, [id |-> idx, kind |-> "item",
                                             f |-> f])
    /\ UNCHANGED <<app, rx, tx, stack, panicking, nPushed, recvLog, lostIds>>

add_menu_item ==
    /\ CanCall
    /\ menu_idx < MaxAdds
    /\ \E f \in Callbacks, r \in PlatformResults :
        LET idx == menu_idx IN
        /\ plat' = PlatCall("add_menu_entry", idx, r)
        /\ lastAddIdx' = idx
        /\ IF r # "Ok"
           THEN /\ ret' = [NoRet EXCEPT !.op = "add_menu_item", !.res = r]
                /\ pendingFail' = idx
                /\ UNCHANGED <<callback, menu_idx, addLog>>
           ELSE /\ callback' = Insert(callback, idx, f)
                /\ menu_idx' = NextMenuIdx(menu_idx)
                /\ ret' = [NoRet EXCEPT !.op = "add_menu_item", !.res = "Ok",
                                        !.id = idx, !.retry = pendingFail]
                /\ pendingFail' = NoId
                /\ addLog' = Append(addLog, [id |-> idx, kind |-> "item",
                                             f |-> f])
    /\ UNCHANGED <<app, rx, tx, stack, panicking, nPushed, recvLog, lostIds>>

\* Faulty variant of add_menu_separator: the separator's id is entered into
\* the registry.
add_menu_separator_registers ==
    /\ CanCall
    /\ menu_idx < MaxAdds
    /\ \E r \in PlatformResults :
        LET idx == menu_idx IN
        /\ plat' = PlatCall("add_menu_separator", idx, r)
        /\ lastAddIdx' = idx
        /\ IF r # "Ok"
           THEN /\ ret' = [NoRet EXCEPT !.op = "add_menu_separator", !.res = r]
                /\ pendingFail' = idx
                /\ UNCHANGED <<callback, menu_idx, addLog>>
           ELSE /\ callback' = Insert(callback, idx, "f")
                /\ menu_idx' = NextMenuIdx(menu_idx)
                /\ ret' = [NoRet EXCEPT !.op = "add_menu_separator",
                                        !.res = "Ok", !.id = idx,
                                        !.retry = pendingFail]
                /\ pendingFail' = NoId
                /\ addLog' = Append(addLog, [id |-> idx, kind |-> "separator",
                                             f |-> NoCallback])
    /\ UNCHANGED <<app, rx, tx, stack, panicking, nPushed, recvLog, lostIds>>

add_menu_separator ==
    /\ CanCall
    /\ menu_idx < MaxAdds
    /\ \E r \in PlatformResults :
        LET idx == menu_idx IN
        /\ plat' = PlatCall("add_menu_separator", idx, r)
        /\ lastAddIdx' = idx
        /\ IF r # "Ok"
           THEN /\ ret' = [NoRet EXCEPT !.op = "add_menu_separator", !.res = r]
                /\ pendingFail' = idx
                /\ UNCHANGED <<menu_idx, addLog>>
           ELSE /\ menu_idx' = NextMenuIdx(menu_idx)
                /\ ret' = [NoRet EXCEPT !.op = "add_menu_separator",
                                        !.res = "Ok", !.id = idx,
                                        !.retry = pendingFail]
                /\ pendingFail' = NoId
                /\ addLog' = Append(addLog, [id |-> idx, kind |-> "separator",
                                             f |-> NoCallback])
    /\ UNCHANGED <<app, callback, rx, tx, stack, panicking, nPushed, recvLog,
                   lostIds>>

\* A pass-through call: the platform's result is the operation's result.
PassThrough(op, call) ==
    /\ CanCall
    /\ \E r \in PlatformResults :
        /\ plat' = PlatCall(call, NoId, r)
        /\ ret' = [NoRet EXCEPT !.op = op, !.res = r]
    /\ UNCHANGED <<app, menu_idx, callback, rx, tx, stack, panicking, nPushed,
                   recvLog, addLog, pendingFail,
                   lastAddIdx, lostIds>>

set_icon_from_file == PassThrough("set_icon_from_file", "set_icon_from_file")

set_icon_from_resource ==
    PassThrough("set_icon_from_resource", "set_icon_from_resource")

set_tooltip == PassThrough("set_tooltip", "set_tooltip")

shutdown ==
    /\ CanCall
    /\ \E r \in ShutdownResults :
        /\ plat' = PlatCall("shutdown", NoId, r)
        /\ ret' = [NoRet EXCEPT !.op = "shutdown", !.res = r]
    /\ UNCHANGED <<app, menu_idx, callback, rx, tx, stack, panicking, nPushed,
                   recvLog, addLog, pendingFail,
                   lastAddIdx, lostIds>>

\* Faulty variant of quit: the registry is emptied along with the signal.
quit_clears_registry ==
    /\ CanCall
    /\ plat' = PlatCall("quit", NoId, "none")
    /\ ret' = [NoRet EXCEPT !.op = "quit"]
    /\ callback' = EmptyMap
    /\ UNCHANGED <<app, menu_idx, rx, tx, stack, panicking, nPushed,
                   recvLog, addLog, pendingFail, lastAddIdx, lostIds>>

quit ==
    /\ CanCall
    /\ plat' = PlatCall("quit", NoId, "none")
    /\ ret' = [NoRet EXCEPT !.op = "quit"]
    /\ UNCHANGED <<app, menu_idx, callback, rx, tx, stack, panicking, nPushed,
                   recvLog, addLog, pendingFail,
                   lastAddIdx, lostIds>>

\* History kept in a frame: what the channel looked like when the call began.
ChannelState ==
    IF tx THEN "connected"
    ELSE IF rx # <<>> THEN "buffered"
    ELSE "drained"

\* ------------------------------------------------------------ message pump
\* A pump call is entered, waits in recv, and either returns from there (a
\* record with no callback, a channel error, a deadline) or runs the callback
\* (pc "call") and returns once the callback has returned.
NewFrame(op) ==
    [NoFrame EXCEPT !.op = op, !.pc = "recv", !.start = ChannelState]

Enter(op) ==
    /\ CanCall
    /\ Len(stack) < MaxDepth
    /\ stack' = Append(stack, NewFrame(op))
    /\ ret' = NoRet
    /\ plat' = NoPlat
    /\ UNCHANGED <<app, menu_idx, callback, rx, tx, panicking, nPushed,
                   recvLog, addLog, pendingFail,
                   lastAddIdx, lostIds>>

InRecv(op) ==
    /\ app = "live"
    /\ ~panicking
    /\ stack # <<>>
    /\ Top.op = op
    /\ Top.pc = "recv"

InCall(op) ==
    /\ app = "live"
    /\ ~panicking
    /\ stack # <<>>
    /\ Top.op = op
    /\ Top.pc = "call"

LogEntry(msg, f) ==
    [seq |-> msg.seq, invoked |-> f # NoCallback]

\* Faulty variant of Dispatch: a record whose id has no callback is reported
\* as an error instead of being discarded.
DispatchStrict(op, msg) ==
    /\ rx' = RecvRest(rx)
    /\ IF ContainsKey(callback, msg.menu_index)
       THEN /\ callback' = Remove(callback, msg.menu_index)
            /\ stack' = [stack EXCEPT ![Len(stack)] =
                            [@ EXCEPT !.pc = "call", !.msg = msg,
                                      !.f = callback[msg.menu_index],
                                      !.reg = callback[msg.menu_index],
                                      !.chan = "Ok",
                                      !.adds = Len(addLog)]]
            /\ recvLog' = Append(recvLog,
                                 LogEntry(msg, callback[msg.menu_index]))
            /\ ret' = NoRet
       ELSE /\ callback' = callback
            /\ stack' = Pop
            /\ recvLog' = Append(recvLog, LogEntry(msg, NoCallback))
            /\ ret' = [NoRet EXCEPT !.op = op, !.res = "OsError",
                          !.frame = [Top EXCEPT !.msg = msg, !.chan = "Ok"]]

\* Faulty variant of Dispatch: the callback is looked up and run while its
\* entry stays in the registry.
DispatchKeepsEntry(op, msg) ==
    /\ rx' = RecvRest(rx)
    /\ IF ContainsKey(callback, msg.menu_index)
       THEN /\ callback' = callback
            /\ stack' = [stack EXCEPT ![Len(stack)] =
                            [@ EXCEPT !.pc = "call", !.msg = msg,
                                      !.f = callback[msg.menu_index],
                                      !.reg = callback[msg.menu_index],
                                      !.chan = "Ok",
                                      !.adds = Len(addLog)]]
            /\ recvLog' = Append(recvLog,
                                 LogEntry(msg, callback[msg.menu_index]))
            /\ ret' = NoRet
       ELSE /\ callback' = callback
            /\ stack' = Pop
            /\ recvLog' = Append(recvLog, LogEntry(msg, NoCallback))
            /\ ret' = [NoRet EXCEPT !.op = op, !.res = "Ok",
                          !.frame = [Top EXCEPT !.msg = msg, !.chan = "Ok"]]

\* if contains_key { let f = remove(..).unwrap(); f(self); ... }: the record
\* is taken, and the callback, when there is one, is taken out of the registry
\* and starts to run; with no callback the call returns Ok(()).
Dispatch(op, msg) ==
    /\ rx' = RecvRest(rx)
    /\ IF ContainsKey(callback, msg.menu_index)
       THEN /\ callback' = Remove(callback, msg.menu_index)
            /\ stack' = [stack EXCEPT ![Len(stack)] =
                            [@ EXCEPT !.pc = "call", !.msg = msg,
                                      !.f = callback[msg.menu_index],
                                      !.reg = callback[msg.menu_index],
                                      !.chan = "Ok",
                                      !.adds = Len(addLog)]]
            /\ recvLog' = Append(recvLog,
                                 LogEntry(msg, callback[msg.menu_index]))
            /\ ret' = NoRet
       ELSE /\ callback' = callback
            /\ stack' = Pop
            /\ recvLog' = Append(recvLog, LogEntry(msg, NoCallback))
            /\ ret' = [NoRet EXCEPT !.op = op, !.res = "Ok",
                          !.frame = [Top EXCEPT !.msg = msg, !.chan = "Ok"]]

\* Faulty variant of Reinsert: the callback is not put back.
ReturnWithoutReinsert(op) ==
    /\ InCall(op)
    /\ callback' = callback
    /\ stack' = Pop
    /\ ret' = [NoRet EXCEPT !.op = op, !.res = "Ok", !.frame = Top]
    /\ plat' = NoPlat
    /\ UNCHANGED <<app, menu_idx, rx, tx, panicking, nPushed, recvLog, addLog,
                   pendingFail,
                   lastAddIdx, lostIds>>

\* Faulty variant of Reinsert: the registry is put back as a map holding only
\* the dispatched entry.
ReinsertForgetsAdded(op) ==
    /\ InCall(op)
    /\ callback' = Insert(EmptyMap, Top.msg.menu_index, Top.f)
    /\ stack' = Pop
    /\ ret' = [NoRet EXCEPT !.op = op, !.res = "Ok", !.frame = Top]
    /\ plat' = NoPlat
    /\ UNCHANGED <<app, menu_idx, rx, tx, panicking, nPushed, recvLog, addLog,
                   pendingFail,
                   lastAddIdx, lostIds>>

\* f(self) has returned: self.callback.insert(msg.menu_index, f); Ok(())
Reinsert(op) ==
    /\ InCall(op)
    /\ callback' = Insert(callback, Top.msg.menu_index, Top.f)
    /\ stack' = Pop
    /\ ret' = [NoRet EXCEPT !.op = op, !.res = "Ok", !.frame = Top]
    /\ plat' = NoPlat
    /\ UNCHANGED <<app, menu_idx, rx, tx, panicking, nPushed, recvLog, addLog,
                   pendingFail,
                   lastAddIdx, lostIds>>

wait_for_message == Enter("wait_for_message")

wait_for_message_recv ==
    /\ InRecv("wait_for_message")
    /\ RecvReady(rx, tx)
    /\ LET r == Recv(rx, tx) IN
       IF r.err # "none"
       THEN /\ stack' = Pop
            /\ ret' = [NoRet EXCEPT !.op = "wait_for_message",
                          !.res = From_RecvError,
                          !.frame = [Top EXCEPT !.chan = r.err]]
            /\ UNCHANGED <<rx, callback, recvLog>>
       ELSE Dispatch("wait_for_message", r.msg)
    /\ plat' = NoPlat
    /\ UNCHANGED <<app, menu_idx, tx, panicking, nPushed, addLog, pendingFail,
                   lastAddIdx, lostIds>>

wait_for_message_return == Reinsert("wait_for_message")

wait_for_message_timeout == Enter("wait_for_message_timeout")

\* Faulty variant of DispatchTimed: the record is dropped without a lookup.
DispatchTimedSkipsLookup(op, msg) ==
    /\ rx' = RecvRest(rx)
    /\ callback' = callback
    /\ stack' = Pop
    /\ recvLog' = Append(recvLog, LogEntry(msg, NoCallback))
    /\ ret' = [NoRet EXCEPT !.op = op, !.res = "Ok",
                  !.frame = [Top EXCEPT !.msg = msg, !.chan = "Ok"]]

\* Ok(match msg { Some(msg) => { if contains_key { remove; f(self); .. } } }):
\* the timed variant's own copy of the lookup, written inside the match arm.
DispatchTimed(op, msg) ==
    /\ rx' = RecvRest(rx)
    /\ IF ContainsKey(callback, msg.menu_index)
       THEN /\ callback' = Remove(callback, msg.menu_index)
            /\ stack' = [stack EXCEPT ![Len(stack)] =
                            [@ EXCEPT !.pc = "call", !.msg = msg,
                                      !.f = callback[msg.menu_index],
                                      !.reg = callback[msg.menu_index],
                                      !.chan = "Ok",
                                      !.adds = Len(addLog)]]
            /\ recvLog' = Append(recvLog,
                                 LogEntry(msg, callback[msg.menu_index]))
            /\ ret' = NoRet
       ELSE /\ callback' = callback
            /\ stack' = Pop
            /\ recvLog' = Append(recvLog, LogEntry(msg, NoCallback))
            /\ ret' = [NoRet EXCEPT !.op = op, !.res = "Ok",
                          !.frame = [Top EXCEPT !.msg = msg, !.chan = "Ok"]]

\* The timed variant's f(self) has returned: insert, then the match yields ()
\* and the call returns Ok(()).
ReinsertTimed(op) ==
    /\ InCall(op)
    /\ callback' = Insert(callback, Top.msg.menu_index, Top.f)
    /\ stack' = Pop
    /\ ret' = [NoRet EXCEPT !.op = op, !.res = "Ok", !.frame = Top]
    /\ plat' = NoPlat
    /\ UNCHANGED <<app, menu_idx, rx, tx, panicking, nPushed, recvLog, addLog,
                   pendingFail,
                   lastAddIdx, lostIds>>

wait_for_message_timeout_recv ==
    /\ InRecv("wait_for_message_timeout")
    /\ LET r == RecvTimeout(rx, tx) IN
       IF r.err # "none"
       THEN /\ stack' = Pop
            /\ ret' = [NoRet EXCEPT !.op = "wait_for_message_timeout",
                          !.res = TimedRecvResult(r.err),
                          !.frame = [Top EXCEPT !.chan = r.err]]
            /\ UNCHANGED <<rx, callback, recvLog>>
       ELSE DispatchTimed("wait_for_message_timeout", r.msg)
    /\ plat' = NoPlat
    /\ UNCHANGED <<app, menu_idx, tx, panicking, nPushed, addLog, pendingFail,
                   lastAddIdx, lostIds>>

wait_for_message_timeout_return == ReinsertTimed("wait_for_message_timeout")

\* ------------------------------------------------------------------ panics
\* Faulty variant of CallbackPanic: the entry is put back while the frame is
\* unwound.
CallbackPanicRestores ==
    /\ app = "live"
    /\ ~panicking
    /\ stack # <<>>
    /\ Top.pc = "call"
    /\ stack' = Pop
    /\ callback' = Insert(callback, Top.msg.menu_index, Top.f)
    /\ lostIds' = lostIds \cup {Top.msg.menu_index}
    /\ panicking' = TRUE
    /\ ret' = NoRet
    /\ plat' = NoPlat
    /\ UNCHANGED <<app, menu_idx, rx, tx, nPushed, recvLog, addLog,
                   pendingFail,
                   lastAddIdx>>

\* The running callback panics: its pump frame is unwound, so the insert
\* after f(self) never runs.
CallbackPanic ==
    /\ app = "live"
    /\ ~panicking
    /\ stack # <<>>
    /\ Top.pc = "call"
    /\ stack' = Pop
    /\ lostIds' = lostIds \cup {Top.msg.menu_index}
    /\ panicking' = TRUE
    /\ ret' = NoRet
    /\ plat' = NoPlat
    /\ UNCHANGED <<app, menu_idx, callback, rx, tx, nPushed, recvLog, addLog,
                   pendingFail,
                   lastAddIdx>>

\* The panic leaves the enclosing callback too, through its pump frame.
Unwind ==
    /\ app = "live"
    /\ panicking
    /\ stack # <<>>
    /\ stack' = Pop
    /\ lostIds' = lostIds \cup {Top.msg.menu_index}
    /\ ret' = NoRet
    /\ plat' = NoPlat
    /\ UNCHANGED <<app, menu_idx, callback, rx, tx, panicking, nPushed,
                   recvLog, addLog, pendingFail,
                   lastAddIdx>>

\* The caller's code (an enclosing callback, or the main code) catches it.
Catch ==
    /\ app = "live"
    /\ panicking
    /\ panicking' = FALSE
    /\ ret' = NoRet
    /\ plat' = NoPlat
    /\ UNCHANGED <<app, menu_idx, callback, rx, tx, stack, nPushed, recvLog,
                   addLog, pendingFail,
                   lastAddIdx, lostIds>>

\* ------------------------------------------------------------------- drop
\* Faulty variant of Drop: the platform is not told to shut down.
DropSkipsShutdown ==
    /\ app = "live"
    /\ stack = <<>>
    /\ plat' = NoPlat
    /\ ret' = [NoRet EXCEPT !.op = "drop"]
    /\ app' = "dropped"
    /\ panicking' = FALSE
    /\ UNCHANGED <<menu_idx, callback, rx, tx, stack, nPushed, recvLog, addLog,
                   pendingFail,
                   lastAddIdx, lostIds>>

\* impl Drop: self.shutdown().ok(). The value goes out of scope in the main
\* code, or is dropped by a panic that unwinds out of it.
Drop ==
    /\ app = "live"
    /\ stack = <<>>
    /\ \E r \in ShutdownResults :
        plat' = PlatCall("shutdown", NoId, r)
    /\ ret' = [NoRet EXCEPT !.op = "drop"]
    /\ app' = "dropped"
    /\ panicking' = FALSE
    /\ UNCHANGED <<menu_idx, callback, rx, tx, stack, nPushed, recvLog, addLog,
                   pendingFail,
                   lastAddIdx, lostIds>>

\* -------------------------------------------------------- platform thread
\* The native loop publishes one record per activation on the producer end.
Push ==
    /\ app = "live"
    /\ tx
    /\ nPushed < MaxPush
    /\ \E id \in PushIds :
        rx' = Send(rx, [menu_index |-> id, seq |-> nPushed + 1])
    /\ nPushed' = nPushed + 1
    /\ ret' = NoRet
    /\ plat' = NoPlat
    /\ UNCHANGED <<app, menu_idx, callback, tx, stack, panicking, recvLog,
                   addLog, pendingFail,
                   lastAddIdx, lostIds>>

\* The native thread ends and the producer end is dropped.
DropProducer ==
    /\ app = "live"
    /\ tx
    /\ tx' = FALSE
    /\ ret' = NoRet
    /\ plat' = NoPlat
    /\ UNCHANGED <<app, menu_idx, callback, rx, stack, panicking, nPushed,
                   recvLog, addLog, pendingFail,
                   lastAddIdx, lostIds>>

\* ------------------------------------------------------------------- Next
PumpCall == wait_for_message \/ wait_for_message_timeout

PumpStep ==
    \/ wait_for_message_recv
    \/ wait_for_message_timeout_recv

PumpReturn ==
    \/ wait_for_message_return
    \/ wait_for_message_timeout_return

Next ==
    \/ New
    \/ add_menu_item
    \/ add_menu_separator
    \/ set_icon_from_file
    \/ set_icon_from_resource
    \/ set_tooltip
    \/ shutdown
    \/ quit
    \/ wait_for_message
    \/ wait_for_message_recv
    \/ wait_for_message_return
    \/ wait_for_message_timeout
    \/ wait_for_message_timeout_recv
    \/ wait_for_message_timeout_return
    \/ CallbackPanic
    \/ Unwind
    \/ Catch
    \/ Drop
    \/ Push
    \/ DropProducer

Spec == Init /\ [][Next]_vars

\* A control thread that does nothing but register entries and pump, with
\* callbacks that do not panic: the steps of Next without the configuration
\* calls (which change neither the Application nor the channel), the panic
\* steps and the drop.
PumpNext ==
    \/ New
    \/ add_menu_item
    \/ add_menu_separator
    \/ wait_for_message
    \/ wait_for_message_recv
    \/ wait_for_message_return
    \/ wait_for_message_timeout
    \/ wait_for_message_timeout_recv
    \/ wait_for_message_timeout_return
    \/ Push
    \/ DropProducer

\* That control thread keeps pumping, a receive that can complete does, and
\* every callback that is invoked ends (strong fairness: a callback that
\* pumps is only intermittently able to return).
FairSpec ==
    /\ Init
    /\ [][PumpNext]_vars
    /\ WF_vars(PumpCall)
    /\ WF_vars(PumpStep)
    /\ SF_vars(PumpReturn)

\* ================================================================ claims
AnyInRecv == stack # <<>> /\ Top.pc = "recv"

\* The innermost pump call completes its receive in this step.
RecvStep == AnyInRecv /\ stack' # stack

\* C1: starting from a fresh Application, the k-th successful add (item or
\* separator, from main code or from inside a callback) returns id k: the ids
\* returned so far are 0, 1, .., N-1 in call order, and the counter equals the
\* number of successful adds.
C1_IdsConsecutive ==
    /\ menu_idx = Len(addLog)
    /\ \A k \in 1 .. Len(addLog) : addLog[k].id = k - 1
    /\ (ret.op \in AddOps /\ ret.res = "Ok") =>
           /\ addLog # <<>>
           /\ ret.id = addLog[Len(addLog)].id

\* A separator added from inside a running callback, after an item.
C1_Witness ==
    /\ Len(addLog) = 2
    /\ addLog[1].kind = "item"
    /\ addLog[2].kind = "separator"
    /\ ret.op = "add_menu_separator"
    /\ ret.id = 1
    /\ stack # <<>>

\* C2: an add the platform rejects returns the platform's error and leaves the
\* counter and the registry as they were, and the next successful add returns
\* the id the rejected call would have returned.
C2_RejectedAddKeepsState ==
    [][ /\ (ret'.op \in AddOps /\ ret'.res # "Ok") =>
              /\ Len(plat') = 1
              /\ plat'[1].res \in PlatformErrors
              /\ ret'.res = plat'[1].res
              /\ ret'.id = NoId
              /\ menu_idx' = menu_idx
              /\ callback' = callback
              /\ plat'[1].idx = menu_idx
        /\ (ret'.op \in AddOps /\ ret'.res = "Ok" /\ pendingFail # NoId) =>
              ret'.id = pendingFail
      ]_vars

\* A successful add_menu_item that follows a rejected add for id 1.
C2_Witness ==
    /\ ret.op = "add_menu_item"
    /\ ret.res = "Ok"
    /\ ret.retry = 1
    /\ ret.id = 1
    /\ DOMAIN callback = {0, 1}

\* C3: a pump call (either variant) that received a record whose id was
\* registered, and whose callback returned, has invoked that callback exactly
\* once, returns success, and leaves the id registered with the same callback.
C3_DispatchRoundTrip ==
    (ret.op \in PumpOps /\ ret.frame.reg # NoCallback) =>
        /\ ret.res = "Ok"
        /\ ret.frame.f = ret.frame.reg
        /\ Cardinality({i \in 1 .. Len(recvLog) :
                            recvLog[i].seq = ret.frame.msg.seq}) = 1
        /\ \A i \in 1 .. Len(recvLog) :
              recvLog[i].seq = ret.frame.msg.seq => recvLog[i].invoked
        /\ ContainsKey(callback, ret.frame.msg.menu_index)
        /\ callback[ret.frame.msg.menu_index] = ret.frame.reg

\* The timed pump returns from dispatching id 1, registered with "g", while
\* id 0 is registered with another callback.
C3_Witness ==
    /\ ret.op = "wait_for_message_timeout"
    /\ ret.res = "Ok"
    /\ ret.frame.msg.menu_index = 1
    /\ ret.frame.reg = "g"
    /\ ContainsKey(callback, 0)
    /\ callback[0] = "f"

\* C4: a pump call (either variant) that receives a record whose id is not a
\* key of the registry invokes nothing, consumes the record, leaves registry
\* and counter unchanged and returns success.
C4_UnregisteredDiscarded ==
    [][ (/\ RecvStep
         /\ rx # <<>>
         /\ ~ContainsKey(callback, Head(rx).menu_index)) =>
            /\ ret'.op = Top.op
            /\ ret'.res = "Ok"
            /\ rx' = Tail(rx)
            /\ callback' = callback
            /\ menu_idx' = menu_idx
            /\ stack' = Pop
            /\ recvLog' = Append(recvLog,
                                 [seq |-> Head(rx).seq, invoked |-> FALSE])
      ]_vars

\* A record for a separator's id has been discarded by wait_for_message while
\* an item is registered.
C4_Witness ==
    /\ ret.op = "wait_for_message"
    /\ ret.res = "Ok"
    /\ ret.frame.msg.menu_index = 1
    /\ Len(addLog) = 2
    /\ addLog[2].kind = "separator"
    /\ DOMAIN callback = {0}

\* C5: wait_for_message_timeout whose deadline elapses with the producer alive
\* and no record buffered returns success, invokes nothing, consumes nothing
\* and leaves registry and counter unchanged.
C5_TimeoutIsSuccess ==
    [][ (/\ RecvStep
         /\ Top.op = "wait_for_message_timeout"
         /\ rx = <<>>
         /\ tx) =>
            /\ ret'.op = "wait_for_message_timeout"
            /\ ret'.res = "Ok"
            /\ stack' = Pop
            /\ UNCHANGED <<rx, callback, menu_idx, recvLog>>
      ]_vars

\* A timed pump call has run into its deadline with a callback registered.
C5_Witness ==
    /\ ret.op = "wait_for_message_timeout"
    /\ ret.frame.chan = "Timeout"
    /\ ret.res = "Ok"
    /\ tx
    /\ DOMAIN callback # {}

\* C6: once the producer end is gone, a control thread that keeps pumping
\* (every callback ending) eventually gets Disconnected, and every pump call
\* begun after the producer is gone terminates: whenever such a call is
\* pending, a moment follows at which none is.
C6_DisconnectedEventually ==
    /\ (app = "live" /\ ~tx) ~> (ret.res = "Disconnected")
    /\ (\E d \in 1 .. Len(stack) : stack[d].start # "connected")
          ~> (\A d \in 1 .. Len(stack) : stack[d].start = "connected")

\* A pump call made from inside a callback got Disconnected after records
\* had been delivered.
C6_Witness ==
    /\ ret.op = "wait_for_message"
    /\ ret.res = "Disconnected"
    /\ stack # <<>>
    /\ recvLog # <<>>

\* C7 as stated: every pump call begun after the producer end was dropped
\* fails with Disconnected and invokes no callback, whatever was pushed before
\* the drop.
C7_Original ==
    /\ (ret.op \in PumpOps /\ ret.frame.start # "connected") =>
           /\ ret.res = "Disconnected"
           /\ ret.frame.f = NoCallback
    /\ \A i \in 1 .. Len(stack) :
           stack[i].start # "connected" => stack[i].pc = "recv"

\* C7, amended: a pump call begun after the producer end was dropped, with no
\* record left in the channel, fails with Disconnected and invokes no
\* callback; one begun while records pushed before the drop are still
\* buffered receives a record and returns success.
C7_DrainedThenDisconnected ==
    /\ (ret.op \in PumpOps /\ ret.frame.start = "drained") =>
           /\ ret.res = "Disconnected"
           /\ ret.frame.msg = NoMsg
           /\ ret.frame.f = NoCallback
    /\ \A i \in 1 .. Len(stack) :
           stack[i].start = "drained" => stack[i].pc = "recv"
    /\ (ret.op \in PumpOps /\ ret.frame.start = "buffered") =>
           /\ ret.res = "Ok"
           /\ ret.frame.msg # NoMsg

\* The timed pump, begun after the drop on a drained channel that had carried
\* records, has failed with Disconnected.
C7_Witness ==
    /\ ret.op = "wait_for_message_timeout"
    /\ ret.frame.start = "drained"
    /\ ret.res = "Disconnected"
    /\ nPushed > 0

\* C8: records are received in the order they were pushed (so their callbacks
\* start in that order), under every interleaving of pushes and pump calls,
\* nested ones included.
C8_Fifo ==
    /\ \A i \in 1 .. Len(recvLog) : recvLog[i].seq = i
    /\ \A i \in 1 .. Len(rx) : rx[i].seq = Len(recvLog) + i

\* Two records, both dispatched, the second by a pump call nested in the
\* first one's callback.
C8_Witness ==
    /\ Len(recvLog) = 2
    /\ recvLog[1].invoked
    /\ recvLog[2].invoked
    /\ Len(stack) = 2
    /\ Top.pc = "call"

IsShutdown(c) == c.call = "shutdown"

\* C9: dropping the Application makes exactly one platform shutdown call,
\* whatever ran before, and surfaces no error even when that call fails; when
\* Application::new fails there is no Application and no shutdown call.
C9_DropShutsDownOnce ==
    /\ [](app = "failed" => plat = PlatCall("Window::new", NoId, "OsError"))
    /\ [][ /\ (app = "live" /\ app' = "dropped") =>
                 /\ Len(SelectSeq(plat', IsShutdown)) = 1
                 /\ ret'.op = "drop"
                 /\ ret'.res = "none"
           /\ app = "failed" => UNCHANGED vars
         ]_vars

\* An Application that was used (an add, a delivered record) has been dropped
\* and the shutdown call failed.
C9_Witness ==
    /\ app = "dropped"
    /\ plat = PlatCall("shutdown", NoId, "OsError")
    /\ ret.res = "none"
    /\ menu_idx > 0
    /\ recvLog # <<>>

\* C10 as stated: the timed pump returns the Timeout error when its deadline
\* elapses with no record available, and no other operation returns Timeout.
C10_Original ==
    /\ (ret.op = "wait_for_message_timeout" /\ ret.frame.chan = "Timeout") =>
           ret.res = "Timeout"
    /\ ret.op # "wait_for_message_timeout" => ret.res # "Timeout"

\* C10, amended: no operation returns the Timeout error; the timed pump
\* returns success when its deadline elapses with no record available.
C10_TimeoutNeverSurfaces ==
    /\ ret.res # "Timeout"
    /\ (ret.op = "wait_for_message_timeout" /\ ret.frame.chan = "Timeout") =>
           ret.res = "Ok"

\* The timed pump, called from inside a callback, has run into its deadline.
C10_Witness ==
    /\ ret.op = "wait_for_message_timeout"
    /\ ret.frame.chan = "Timeout"
    /\ stack # <<>>

AddPlatCalls == {"add_menu_entry", "add_menu_separator"}

\* This step calls the platform's add_menu_entry or add_menu_separator.
AddCallStep == plat' # <<>> /\ plat'[1].call \in AddPlatCalls

\* C11 as stated: over the life of an Application the ids passed to the
\* platform's add calls are pairwise distinct and strictly increasing in call
\* order, rejected calls included.
C11_Original ==
    [][ AddCallStep => plat'[1].idx > lastAddIdx ]_vars

\* C11, amended: the ids passed to the platform's add calls never decrease in
\* call order; an id is passed again only when the call before it was
\* rejected; the ids of accepted calls are pairwise distinct and strictly
\* increasing.
C11_AcceptedIdsIncrease ==
    [][ AddCallStep =>
            /\ plat'[1].idx >= lastAddIdx
            /\ plat'[1].idx = lastAddIdx => pendingFail = lastAddIdx
            /\ plat'[1].res = "Ok" =>
                  \A k \in 1 .. Len(addLog) : addLog[k].id < plat'[1].idx
      ]_vars

\* The platform has accepted a separator with id 1 after rejecting id 1.
C11_Witness ==
    /\ plat = PlatCall("add_menu_separator", 1, "Ok")
    /\ ret.retry = 1
    /\ lastAddIdx = 1

\* C12: set_icon_from_file, set_icon_from_resource, set_tooltip, shutdown and
\* quit return what the platform answered and leave the id counter, the
\* registry and the buffered records as they were, whether the platform call
\* succeeded or failed; so also after quit, a pump call that receives a record
\* for a registered id invokes its callback.
C12_ConfigCallsKeepState ==
    [][ /\ ret'.op \in ConfigOps =>
              /\ UNCHANGED <<menu_idx, callback, rx, stack, addLog, recvLog>>
              /\ Len(plat') = 1
              /\ plat'[1].call = ret'.op
              /\ plat'[1].res = ret'.res
        /\ (/\ RecvStep
            /\ rx # <<>>
            /\ ContainsKey(callback, Head(rx).menu_index)) =>
              /\ Len(stack') = Len(stack)
              /\ stack'[Len(stack)].pc = "call"
              /\ stack'[Len(stack)].f = callback[Head(rx).menu_index]
              /\ recvLog' = Append(recvLog,
                                   [seq |-> Head(rx).seq, invoked |-> TRUE])
      ]_vars

\* quit has just been called from inside a callback while a record for a
\* registered id is waiting in the channel.
C12_Witness ==
    /\ ret.op = "quit"
    /\ stack # <<>>
    /\ rx # <<>>
    /\ ContainsKey(callback, Head(rx).menu_index)

\* A pump call has just returned after running a callback.
ReturnedFromCallback ==
    /\ ret.op \in PumpOps
    /\ ret.frame.f # NoCallback

\* The entries of addLog written while that callback ran.
AddedDuringCallback ==
    { k \in 1 .. Len(addLog) : k > ret.frame.adds }

Registered(k) ==
    /\ ContainsKey(callback, addLog[k].id)
    /\ callback[addLog[k].id] = addLog[k].f

\* C13 as stated: when the dispatching pump call returns, every item added
\* during the callback is registered with its callback, and so is the
\* dispatched id.
C13_Original ==
    ReturnedFromCallback =>
        /\ \A k \in AddedDuringCallback :
               addLog[k].kind = "item" => Registered(k)
        /\ ContainsKey(callback, ret.frame.msg.menu_index)
        /\ callback[ret.frame.msg.menu_index] = ret.frame.reg

\* C13: an add made from inside a callback passes the next consecutive id and,
\* once accepted, is stored; when the dispatching pump call returns, the
\* registry holds the dispatched id with its original callback and every item
\* added during the callback with the callback supplied for it, except items
\* whose own callback panicked in a nested pump call; the reinsert step leaves
\* every other entry as it was.
C13_AddsInCallbackKept ==
    [][ /\ (/\ stack # <<>>
            /\ AddCallStep
            /\ plat'[1].res = "Ok") =>
              /\ plat'[1].idx = menu_idx
              /\ menu_idx' = menu_idx + 1
              /\ stack' = stack
              /\ IF plat'[1].call = "add_menu_entry"
                 THEN /\ DOMAIN callback' = DOMAIN callback \cup {menu_idx}
                      /\ \A x \in DOMAIN callback : callback'[x] = callback[x]
                      /\ callback'[menu_idx] = addLog'[Len(addLog')].f
                 ELSE callback' = callback
        /\ (/\ stack # <<>>
            /\ Top.pc = "call"
            /\ Len(stack') < Len(stack)
            /\ ret'.op \in PumpOps) =>
              /\ DOMAIN callback' = DOMAIN callback \cup {Top.msg.menu_index}
              /\ \A x \in DOMAIN callback : callback'[x] = callback[x]
              /\ callback'[Top.msg.menu_index] = Top.reg
        /\ (ReturnedFromCallback =>
              /\ \A k \in AddedDuringCallback :
                     (addLog[k].kind = "item" /\ addLog[k].id \notin lostIds)
                         => Registered(k)
              /\ ContainsKey(callback, ret.frame.msg.menu_index)
              /\ callback[ret.frame.msg.menu_index] = ret.frame.reg)'
      ]_vars

\* A pump call has returned whose callback added an item, and the registry
\* holds both the dispatched id and the added one.
C13_Witness ==
    /\ ReturnedFromCallback
    /\ \E k \in AddedDuringCallback :
           addLog[k].kind = "item" /\ Registered(k)
    /\ ContainsKey(callback, ret.frame.msg.menu_index)

\* The ids whose callbacks are executing: one per pump frame that is inside
\* f(self).
Running == { i \in 1 .. Len(stack) : stack[i].pc = "call" }

RunningIds == { stack[i].msg.menu_index : i \in Running }

\* C14: while the callback of id X is executing X is not a key of the
\* registry and no second invocation of X's callback is active; a pump call
\* made inside the callback that receives a record for X consumes it, invokes
\* nothing and returns Ok, while a record for a registered id is dispatched;
\* once the outer pump call has returned, X is a key again.
C14_NonReentrantPerId ==
    [][ /\ (/\ \A i \in Running :
                  ~ContainsKey(callback, stack[i].msg.menu_index)
            /\ \A i, j \in Running :
                  stack[i].msg.menu_index = stack[j].msg.menu_index => i = j)'
        /\ (/\ RecvStep
            /\ rx # <<>>
            /\ Head(rx).menu_index \in RunningIds) =>
              /\ rx' = Tail(rx)
              /\ stack' = Pop
              /\ callback' = callback
              /\ ret'.op = Top.op
              /\ ret'.res = "Ok"
              /\ recvLog' = Append(recvLog,
                                   [seq |-> Head(rx).seq, invoked |-> FALSE])
        /\ (/\ RecvStep
            /\ Len(stack) > 1
            /\ rx # <<>>
            /\ ContainsKey(callback, Head(rx).menu_index)) =>
              /\ Head(rx).menu_index \notin RunningIds
              /\ Running' = Running \cup {Len(stack)}
              /\ stack'[Len(stack)].msg = Head(rx)
        /\ (/\ stack # <<>>
            /\ Top.pc = "call"
            /\ Len(stack') < Len(stack)
            /\ ret'.op \in PumpOps) =>
              /\ ContainsKey(callback', Top.msg.menu_index)
              /\ Top.msg.menu_index \notin RunningIds'
      ]_vars

\* A pump call made from inside the callback of an id has just consumed a
\* further record for that same id without invoking anything.
C14_Witness ==
    /\ ret.op \in PumpOps
    /\ ret.res = "Ok"
    /\ ret.frame.msg # NoMsg
    /\ ret.frame.f = NoCallback
    /\ ret.frame.msg.menu_index \in RunningIds

\* The ids returned by successful add_menu_item / add_menu_separator calls.
ItemIds == { addLog[k].id : k \in { j \in 1 .. Len(addLog) :
                                        addLog[j].kind = "item" } }

SeparatorIds == { addLog[k].id : k \in { j \in 1 .. Len(addLog) :
                                             addLog[j].kind = "separator" } }

\* C15: the registry's keys are ids returned by successful add_menu_item
\* calls, each below the id counter and none a separator's id, and the only
\* item ids missing are those of executing or panicked callbacks; with no
\* callback executing and none panicked, the keys are exactly the item ids,
\* each mapped to the callback it was added with.
C15_RegistryKeys ==
    /\ DOMAIN callback \subseteq ItemIds
    /\ \A x \in DOMAIN callback : x >= 0 /\ x < menu_idx
    /\ DOMAIN callback \cap SeparatorIds = {}
    /\ DOMAIN callback = ItemIds \ (RunningIds \cup lostIds)
    /\ (Running = {} /\ lostIds = {}) => DOMAIN callback = ItemIds
    /\ \A k \in 1 .. Len(addLog) :
           ContainsKey(callback, addLog[k].id) =>
               callback[addLog[k].id] = addLog[k].f

\* An item and a separator have been added, a callback has run to completion,
\* and the registry holds exactly the item ids.
C15_Witness ==
    /\ Running = {}
    /\ lostIds = {}
    /\ SeparatorIds # {}
    /\ ItemIds # {}
    /\ DOMAIN callback = ItemIds
    /\ \E k \in 1 .. Len(recvLog) : recvLog[k].invoked

\* C16: when a callback panics its pump frame is left without the insert, and
\* from then on the dispatched id is never a key of the registry again; every
\* later record for that id is consumed by the pump call that receives it,
\* nothing is invoked, and that call returns Ok.
C16_PanicLosesEntry ==
    [][ /\ (\A x \in lostIds : ~ContainsKey(callback, x))'
        /\ lostIds \subseteq lostIds'
        /\ (/\ stack # <<>>
            /\ Top.pc = "call"
            /\ Len(stack') < Len(stack)
            /\ ret'.op \notin PumpOps) =>
              /\ callback' = callback
              /\ Top.msg.menu_index \in lostIds'
              /\ panicking'
        /\ (/\ RecvStep
            /\ rx # <<>>
            /\ Head(rx).menu_index \in lostIds) =>
              /\ rx' = Tail(rx)
              /\ stack' = Pop
              /\ callback' = callback
              /\ ret'.op = Top.op
              /\ ret'.res = "Ok"
              /\ ret'.frame.f = NoCallback
              /\ recvLog' = Append(recvLog,
                                   [seq |-> Head(rx).seq, invoked |-> FALSE])
      ]_vars

\* After the panic was caught, a later pump call has consumed a record for
\* the lost id and returned Ok without an invocation.
C16_Witness ==
    /\ ret.op \in PumpOps
    /\ ret.res = "Ok"
    /\ ret.frame.msg # NoMsg
    /\ ret.frame.msg.menu_index \in lostIds
    /\ ret.frame.f = NoCallback
    /\ stack = <<>>
    /\ ~panicking

\* The receipts that led to a callback invocation.
Invocations == { k \in 1 .. Len(recvLog) : recvLog[k].invoked }

\* C17: every pushed record is either still buffered or was received exactly
\* once, and a receipt leads to at most one invocation, so invocations never
\* outnumber pushes; a receive step takes the oldest record and nothing else,
\* or takes nothing when the call times out or returns Disconnected; the rest
\* of a pump call receives nothing more.
C17_OneRecordPerCall ==
    [][ /\ (/\ Len(recvLog) + Len(rx) = nPushed
            /\ \A j, k \in 1 .. Len(recvLog) :
                   recvLog[j].seq = recvLog[k].seq => j = k
            /\ \A j \in 1 .. Len(recvLog), k \in 1 .. Len(rx) :
                   recvLog[j].seq # rx[k].seq
            /\ Cardinality(Invocations) <= nPushed)'
        /\ RecvStep =>
              IF rx = <<>>
              THEN /\ rx' = rx
                   /\ recvLog' = recvLog
                   /\ stack' = Pop
                   /\ ret'.res \in {"Ok", "Disconnected"}
                   /\ ret'.frame.msg = NoMsg
              ELSE /\ rx' = Tail(rx)
                   /\ Len(recvLog') = Len(recvLog) + 1
                   /\ SubSeq(recvLog', 1, Len(recvLog)) = recvLog
                   /\ recvLog'[Len(recvLog')].seq = Head(rx).seq
                   /\ IF stack' = Pop
                      THEN /\ ret'.res = "Ok"
                           /\ ret'.frame.msg = Head(rx)
                           /\ ~recvLog'[Len(recvLog')].invoked
                      ELSE /\ stack'[Len(stack)].msg = Head(rx)
                           /\ recvLog'[Len(recvLog')].invoked
        /\ ~RecvStep =>
              /\ recvLog' = recvLog
              /\ Len(rx') >= Len(rx)
        /\ (/\ stack # <<>>
            /\ Top.pc = "call"
            /\ Len(stack') < Len(stack)
            /\ ret'.op \in PumpOps) =>
              /\ ret'.res = "Ok"
              /\ ret'.frame.msg = Top.msg
              /\ Cardinality({ k \in 1 .. Len(recvLog) :
                                   recvLog[k].seq = Top.msg.seq }) = 1
      ]_vars

\* Two records were pushed; the first was dispatched, the second discarded,
\* and a further pump call has returned without receiving anything.
C17_Witness ==
    /\ nPushed = 2
    /\ Len(recvLog) = 2
    /\ recvLog[1].invoked
    /\ ~recvLog[2].invoked
    /\ ret.op \in PumpOps
    /\ ret.frame.msg = NoMsg
    /\ rx = <<>>

\* A pump call returns from its callback.
CallbackReturnStep ==
    /\ stack # <<>>
    /\ Top.pc = "call"
    /\ Len(stack') < Len(stack)
    /\ ret'.op \in PumpOps

\* C18: with a record buffered, a receive step of either pump variant is also
\* a step of the other variant's code from the same state (same record taken,
\* same callback started or none, same result, same registry, counter and
\* queue afterwards), and so is the return from the callback; with the queue
\* empty and the sender gone both return Disconnected; only with the queue
\* empty and the sender alive do they differ, the timed variant alone
\* returning.
C18_VariantsInterchangeable ==
    [][ /\ (RecvStep /\ rx # <<>>) =>
              /\ Recv(rx, tx) = RecvTimeout(rx, tx)
              /\ Recv(rx, tx).err = "none"
              /\ menu_idx' = menu_idx
              /\ IF Top.op = "wait_for_message"
                 THEN DispatchTimed(Top.op, RecvTimeout(rx, tx).msg)
                 ELSE Dispatch(Top.op, Recv(rx, tx).msg)
        /\ CallbackReturnStep =>
              IF Top.op = "wait_for_message"
              THEN ReinsertTimed(Top.op)
              ELSE Reinsert(Top.op)
        /\ (RecvStep /\ rx = <<>> /\ ~tx) =>
              /\ ret'.res = "Disconnected"
              /\ From_RecvError = TimedRecvResult(RecvTimeout(rx, tx).err)
              /\ UNCHANGED <<rx, callback, menu_idx, recvLog>>
        /\ (RecvStep /\ rx = <<>> /\ tx) =>
              /\ Top.op = "wait_for_message_timeout"
              /\ ret'.res = "Ok"
              /\ ~RecvReady(rx, tx)
      ]_vars

\* Inside a callback dispatched by wait_for_message, a nested
\* wait_for_message_timeout has dispatched a record and returned Ok.
C18_Witness ==
    /\ ret.op = "wait_for_message_timeout"
    /\ ret.res = "Ok"
    /\ ret.frame.f # NoCallback
    /\ stack # <<>>
    /\ Top.op = "wait_for_message"
    /\ Top.pc = "call"

\* C19: with a control thread that keeps pumping and callbacks that return,
\* again and again every record pushed so far has been received, the n-th
\* pushed as the n-th received, also when the producer end was dropped while
\* records were still buffered; at the moment a record is received, a callback
\* registered for its id is invoked.
C19_NoActivationLost ==
    /\ []<>(/\ rx = <<>>
            /\ Len(recvLog) = nPushed
            /\ \A n \in 1 .. nPushed : recvLog[n].seq = n)
    /\ [][ (RecvStep /\ rx # <<>>) =>
               /\ recvLog' = Append(recvLog,
                      [seq |-> Head(rx).seq,
                       invoked |-> ContainsKey(callback, Head(rx).menu_index)])
               /\ ContainsKey(callback, Head(rx).menu_index) =>
                      /\ Running' = Running \cup {Len(stack)}
                      /\ stack'[Len(stack)].f = callback[Head(rx).menu_index]
         ]_vars

\* Every record pushed has been received, the last one by a pump call begun
\* after the producer end was dropped, and its callback has run.
C19_Witness ==
    /\ ret.op \in PumpOps
    /\ ret.frame.start = "buffered"
    /\ ret.frame.f # NoCallback
    /\ nPushed >= 2
    /\ Len(recvLog) = nPushed
    /\ \A k \in 1 .. Len(recvLog) : recvLog[k].invoked

====
